---- MODULE Spec2Model ----
(***************************************************************************)
(* State-machine model of the ink! ERC20 contract ContractsInkErc20       *)
(* (src/contracts_ink_erc20/lib.rs): the storage struct, the constructor,  *)
(* the three mutating messages and the three queries, with the events the  *)
(* contract hands to the host.                                             *)
(***************************************************************************)
EXTENDS Integers, Sequences, FiniteSets, TLC

\* ------------------------------------------------------------------------
\* Bounds of the model
\* ------------------------------------------------------------------------

\* Largest value of the Balance type in the model (u128 in the contract).
MaxBalance == 2

\* Longest sequence of calls explored (the constructor call included).
MaxCalls == 3

\* The AccountId values the environment can supply as caller or argument.
AccountId == {"acct0", "acct1", "acct2"}

\* The Balance type: an unsigned fixed-width integer.
Balance == 0..MaxBalance

\* Number of values of the Balance type (2^128 in the contract).
Modulus == MaxBalance + 1

\* Option::None
None == <<"None">>

\* ------------------------------------------------------------------------
\* State
\* ------------------------------------------------------------------------

VARIABLES
    total_supply,   \* storage field total_supply
    balances,       \* storage field balances: a map with a partial domain
    allowances,     \* storage field allowances: a map keyed by <<owner, spender>>
    events,         \* the events emitted to the host so far, oldest first
    calls,          \* the calls the host delivered, each with what it returned
    old,            \* storage and events as they were before the last call
    host            \* the host's scheduling: its lock and the calls in progress

vars == <<total_supply, balances, allowances, events, calls, old, host>>

\* The last call delivered.
call == calls[Len(calls)]

\* Storage and events now, as `old` records them.
Snapshot ==
    [total_supply |-> total_supply, balances |-> balances,
     allowances |-> allowances, events |-> events]

\* ------------------------------------------------------------------------
\* Types of the contract
\* ------------------------------------------------------------------------

\* enum Error
InsufficientBalance == "InsufficientBalance"
InsufficientApproval == "InsufficientApproval"

\* Result<()>::Ok(())
Ok == "Ok"

\* The contract trapped (a panic): the host reverts the call.
Trap == "Trap"

\* An arithmetic result: a Balance.
Val(n) == [trap |-> FALSE, val |-> n]

\* An arithmetic result: the operation panicked.
Panic == [trap |-> TRUE, val |-> 0]

\* struct Transfer
Transfer(from, to, value) ==
    [event |-> "Transfer", from |-> from, to |-> to, value |-> value]

\* struct Approval
Approval(owner, spender, value) ==
    [event |-> "Approval", owner |-> owner, spender |-> spender, value |-> value]

\* Option::Some
Some(a) == <<"Some", a>>

\* ------------------------------------------------------------------------
\* HashMap
\* ------------------------------------------------------------------------

\* HashMap::new()
EmptyMap == [k \in {} |-> 0]

\* HashMap::insert(k, v)
insert(m, k, v) ==
    [x \in (DOMAIN m) \cup {k} |-> IF x = k THEN v ELSE m[x]]

\* get_or_zero, with 1 as the value of an absent key.
get_or_zero_One(m, k) == IF k \in DOMAIN m THEN m[k] ELSE 1

\* *m.get(k).unwrap_or(&0)
get_or_zero(m, k) == IF k \in DOMAIN m THEN m[k] ELSE 0

\* ------------------------------------------------------------------------
\* Balance arithmetic
\* ------------------------------------------------------------------------

\* a + b on Balance. When the sum does not fit, the build decides: with
\* overflow checks the contract traps, without them the sum wraps.
\* The result is the set of outcomes the builds can produce.
add(a, b) ==
    IF a + b <= MaxBalance THEN {Val(a + b)} ELSE {Val((a + b) % Modulus), Panic}

\* a - b on Balance, same convention.
sub(a, b) ==
    IF a >= b THEN {Val(a - b)} ELSE {Val((a - b) % Modulus), Panic}

\* ------------------------------------------------------------------------
\* Private helpers of the contract, as functions of the storage
\* ------------------------------------------------------------------------

balance_of_or_zero(owner) == get_or_zero(balances, owner)

allowance_of_or_zero(owner, spender) == get_or_zero(allowances, <<owner, spender>>)

\* The queries, as the values they return.
balance_of(owner) == balance_of_or_zero(owner)

allowance(owner, spender) == allowance_of_or_zero(owner, spender)

\* A trapped call: the host reverts storage and events.
Reverted == [result |-> Trap, balances |-> balances, events |-> events]

\* credit, storing the amount as the balance of `to` instead of adding it.
credit_Overwrite(b1, from, to, value) ==
    { [result |-> Ok,
       balances |-> insert(b1, to, value),
       events |-> Append(events, Transfer(Some(from), Some(to), value))] }

\* credit, notifying the transfer as the constructor does, with no source.
credit_MintEvent(b1, from, to, value) ==
    LET to_balance == get_or_zero(b1, to) IN
    { IF sum.trap THEN Reverted
      ELSE [result |-> Ok,
            balances |-> insert(b1, to, sum.val),
            events |-> Append(events, Transfer(None, Some(to), value))]
      : sum \in add(to_balance, value) }

\* Lines 145-152 of transfer_from_to: the credit of `to` and the event, once
\* the debit is stored in b1.
credit(b1, from, to, value) ==
    LET to_balance == get_or_zero(b1, to) IN
    { IF sum.trap THEN Reverted
      ELSE [result |-> Ok,
            balances |-> insert(b1, to, sum.val),
            events |-> Append(events, Transfer(Some(from), Some(to), value))]
      : sum \in add(to_balance, value) }

\* transfer_from_to, rejecting an amount equal to the balance.
transfer_from_to_Le(from, to, value) ==
    LET from_balance == balance_of_or_zero(from) IN
    IF from_balance <= value
    THEN {[result |-> InsufficientBalance, balances |-> balances, events |-> events]}
    ELSE UNION { IF diff.trap THEN {Reverted}
                 ELSE credit(insert(balances, from, diff.val), from, to, value)
                 : diff \in sub(from_balance, value) }

\* transfer_from_to, reading the balance of `to` before the debit is stored.
transfer_from_to_StaleRead(from, to, value) ==
    LET from_balance == balance_of_or_zero(from)
        to_balance == balance_of_or_zero(to)
    IN
    IF from_balance < value
    THEN {[result |-> InsufficientBalance, balances |-> balances, events |-> events]}
    ELSE { IF diff.trap \/ sum.trap THEN Reverted
           ELSE [result |-> Ok,
                 balances |-> insert(insert(balances, from, diff.val), to, sum.val),
                 events |-> Append(events, Transfer(Some(from), Some(to), value))]
           : diff \in sub(from_balance, value), sum \in add(to_balance, value) }

\* transfer_from_to, without the check of the balance.
transfer_from_to_NoCheck(from, to, value) ==
    LET from_balance == balance_of_or_zero(from) IN
    UNION { IF diff.trap THEN {Reverted}
            ELSE credit(insert(balances, from, diff.val), from, to, value)
            : diff \in sub(from_balance, value) }

\* transfer_from_to(from, to, value): the set of outcomes, each the result
\* returned with the balances map and the event log it leaves.
transfer_from_to(from, to, value) ==
    LET from_balance == balance_of_or_zero(from) IN
    IF from_balance < value
    THEN {[result |-> InsufficientBalance, balances |-> balances, events |-> events]}
    ELSE UNION { IF diff.trap THEN {Reverted}
                 ELSE credit(insert(balances, from, diff.val), from, to, value)
                 : diff \in sub(from_balance, value) }

\* ------------------------------------------------------------------------
\* Constructor
\* ------------------------------------------------------------------------

\* new, leaving total_supply at its default.
new_NoSupply(caller, init_supply) ==
    /\ total_supply = 0
    /\ balances = insert(EmptyMap, caller, init_supply)
    /\ allowances = EmptyMap
    /\ events = <<Transfer(None, Some(caller), init_supply)>>
    /\ calls = <<[op |-> "new", caller |-> caller, init_supply |-> init_supply]>>
    /\ old = [total_supply |-> 0, balances |-> EmptyMap,
              allowances |-> EmptyMap, events |-> <<>>]

\* new, crediting nobody.
new_NoCredit(caller, init_supply) ==
    /\ total_supply = init_supply
    /\ balances = EmptyMap
    /\ allowances = EmptyMap
    /\ events = <<Transfer(None, Some(caller), init_supply)>>
    /\ calls = <<[op |-> "new", caller |-> caller, init_supply |-> init_supply]>>
    /\ old = [total_supply |-> 0, balances |-> EmptyMap,
              allowances |-> EmptyMap, events |-> <<>>]

\* new(init_supply), called by `caller`
new(caller, init_supply) ==
    /\ total_supply = init_supply
    /\ balances = insert(EmptyMap, caller, init_supply)
    /\ allowances = EmptyMap
    /\ events = <<Transfer(None, Some(caller), init_supply)>>
    /\ calls = <<[op |-> "new", caller |-> caller, init_supply |-> init_supply]>>
    /\ old = [total_supply |-> 0, balances |-> EmptyMap,
              allowances |-> EmptyMap, events |-> <<>>]

\* The host that runs every call to completion before the next: no call is
\* ever in progress between two steps.
Serial == [locking |-> TRUE, holder |-> 0, tasks |-> EmptyMap]

Init ==
    \E caller \in AccountId, init_supply \in Balance :
        new(caller, init_supply) /\ host = Serial

\* ------------------------------------------------------------------------
\* Messages
\* ------------------------------------------------------------------------

\* The host delivers messages while the explored sequence of calls has room.
Room == Len(calls) < MaxCalls

\* The host delivers a message: the call is recorded with what it returned.
Deliver(c) ==
    /\ calls' = Append(calls, c)
    /\ old' = Snapshot
    /\ UNCHANGED host

\* approve, adding the amount to the allowance already granted.
approve_Adds(caller, spender, value) ==
    /\ LET owner == caller IN
        /\ \E total \in add(allowance_of_or_zero(owner, spender), value) :
                allowances' = insert(allowances, <<owner, spender>>, total.val)
        /\ events' = Append(events, Approval(owner, spender, value))
        /\ Deliver([op |-> "approve", caller |-> caller, spender |-> spender,
                    value |-> value, result |-> Ok])
    /\ UNCHANGED <<total_supply, balances>>

\* approve, storing the allowance under the key (spender, owner).
approve_Swapped(caller, spender, value) ==
    /\ LET owner == caller IN
        /\ allowances' = insert(allowances, <<spender, owner>>, value)
        /\ events' = Append(events, Approval(owner, spender, value))
        /\ Deliver([op |-> "approve", caller |-> caller, spender |-> spender,
                    value |-> value, result |-> Ok])
    /\ UNCHANGED <<total_supply, balances>>

\* approve(spender, value), called by `caller`
approve(caller, spender, value) ==
    /\ LET owner == caller IN
        /\ allowances' = insert(allowances, <<owner, spender>>, value)
        /\ events' = Append(events, Approval(owner, spender, value))
        /\ Deliver([op |-> "approve", caller |-> caller, spender |-> spender,
                    value |-> value, result |-> Ok])
    /\ UNCHANGED <<total_supply, balances>>

\* The record of a transfer_from call and its result.
TransferFromCall(caller, from, to, value, result) ==
    [op |-> "transfer_from", caller |-> caller, from |-> from, to |-> to,
     value |-> value, result |-> result]

\* transfer_from, moving the balance before it checks the allowance.
transfer_from_BalanceFirst(caller, from, to, value) ==
    /\ LET allowance_ == allowance_of_or_zero(from, caller) IN
        \E r \in transfer_from_to(from, to, value) :
            IF r.result # Ok
            THEN /\ Deliver(TransferFromCall(caller, from, to, value, r.result))
                 /\ UNCHANGED <<total_supply, balances, allowances, events>>
            ELSE IF allowance_ < value
            THEN /\ Deliver(TransferFromCall(caller, from, to, value, InsufficientApproval))
                 /\ UNCHANGED <<total_supply, balances, allowances, events>>
            ELSE /\ balances' = r.balances
                 /\ events' = r.events
                 /\ allowances' = insert(allowances, <<from, caller>>, allowance_ - value)
                 /\ Deliver(TransferFromCall(caller, from, to, value, Ok))
                 /\ UNCHANGED total_supply

\* transfer_from, lowering the allowance before it moves the balance.
transfer_from_EagerAllowance(caller, from, to, value) ==
    /\ LET allowance_ == allowance_of_or_zero(from, caller) IN
        IF allowance_ < value
        THEN /\ Deliver(TransferFromCall(caller, from, to, value, InsufficientApproval))
             /\ UNCHANGED <<total_supply, balances, allowances, events>>
        ELSE \E r \in transfer_from_to(from, to, value) :
                /\ allowances' = insert(allowances, <<from, caller>>, allowance_ - value)
                /\ balances' = r.balances
                /\ events' = r.events
                /\ Deliver(TransferFromCall(caller, from, to, value, r.result))
                /\ UNCHANGED total_supply

\* transfer_from, storing the remaining allowance under the key (from, to).
transfer_from_KeyTo(caller, from, to, value) ==
    /\ LET allowance_ == allowance_of_or_zero(from, caller) IN
        IF allowance_ < value
        THEN /\ Deliver(TransferFromCall(caller, from, to, value, InsufficientApproval))
             /\ UNCHANGED <<total_supply, balances, allowances, events>>
        ELSE \E r \in transfer_from_to(from, to, value) :
                IF r.result = Ok
                THEN /\ balances' = r.balances
                     /\ events' = r.events
                     /\ allowances' = insert(allowances, <<from, to>>, allowance_ - value)
                     /\ Deliver(TransferFromCall(caller, from, to, value, Ok))
                     /\ UNCHANGED total_supply
                ELSE /\ Deliver(TransferFromCall(caller, from, to, value, r.result))
                     /\ UNCHANGED <<total_supply, balances, allowances, events>>

\* transfer_from, also notifying the new allowance.
transfer_from_EmitsApproval(caller, from, to, value) ==
    /\ LET allowance_ == allowance_of_or_zero(from, caller) IN
        IF allowance_ < value
        THEN /\ Deliver(TransferFromCall(caller, from, to, value, InsufficientApproval))
             /\ UNCHANGED <<total_supply, balances, allowances, events>>
        ELSE \E r \in transfer_from_to(from, to, value) :
                IF r.result = Ok
                THEN /\ balances' = r.balances
                     /\ events' = Append(r.events,
                                         Approval(from, caller, allowance_ - value))
                     /\ allowances' = insert(allowances, <<from, caller>>, allowance_ - value)
                     /\ Deliver(TransferFromCall(caller, from, to, value, Ok))
                     /\ UNCHANGED total_supply
                ELSE /\ Deliver(TransferFromCall(caller, from, to, value, r.result))
                     /\ UNCHANGED <<total_supply, balances, allowances, events>>

\* transfer_from, reading the allowance the caller granted to `from`.
transfer_from_LookupSwapped(caller, from, to, value) ==
    /\ LET allowance_ == allowance_of_or_zero(caller, from) IN
        IF allowance_ < value
        THEN /\ Deliver(TransferFromCall(caller, from, to, value, InsufficientApproval))
             /\ UNCHANGED <<total_supply, balances, allowances, events>>
        ELSE \E r \in transfer_from_to(from, to, value) :
                IF r.result = Ok
                THEN /\ balances' = r.balances
                     /\ events' = r.events
                     /\ allowances' = insert(allowances, <<caller, from>>, allowance_ - value)
                     /\ Deliver(TransferFromCall(caller, from, to, value, Ok))
                     /\ UNCHANGED total_supply
                ELSE /\ Deliver(TransferFromCall(caller, from, to, value, r.result))
                     /\ UNCHANGED <<total_supply, balances, allowances, events>>

\* transfer_from, rejecting an amount equal to the allowance.
transfer_from_Le(caller, from, to, value) ==
    /\ LET allowance_ == allowance_of_or_zero(from, caller) IN
        IF allowance_ <= value
        THEN /\ Deliver(TransferFromCall(caller, from, to, value, InsufficientApproval))
             /\ UNCHANGED <<total_supply, balances, allowances, events>>
        ELSE \E r \in transfer_from_to(from, to, value) :
                IF r.result = Ok
                THEN /\ balances' = r.balances
                     /\ events' = r.events
                     /\ allowances' = insert(allowances, <<from, caller>>, allowance_ - value)
                     /\ Deliver(TransferFromCall(caller, from, to, value, Ok))
                     /\ UNCHANGED total_supply
                ELSE /\ Deliver(TransferFromCall(caller, from, to, value, r.result))
                     /\ UNCHANGED <<total_supply, balances, allowances, events>>

\* transfer_from, never storing the lowered allowance.
transfer_from_NoDecrement(caller, from, to, value) ==
    /\ LET allowance_ == allowance_of_or_zero(from, caller) IN
        IF allowance_ < value
        THEN /\ Deliver(TransferFromCall(caller, from, to, value, InsufficientApproval))
             /\ UNCHANGED <<total_supply, balances, allowances, events>>
        ELSE \E r \in transfer_from_to(from, to, value) :
                /\ balances' = r.balances
                /\ events' = r.events
                /\ Deliver(TransferFromCall(caller, from, to, value, r.result))
                /\ UNCHANGED <<total_supply, allowances>>

\* transfer_from(from, to, value), called by `caller`
transfer_from(caller, from, to, value) ==
    /\ LET allowance_ == allowance_of_or_zero(from, caller) IN
        IF allowance_ < value
        THEN /\ Deliver(TransferFromCall(caller, from, to, value, InsufficientApproval))
             /\ UNCHANGED <<total_supply, balances, allowances, events>>
        ELSE \E r \in transfer_from_to(from, to, value), rest \in sub(allowance_, value) :
                IF r.result = Ok /\ ~rest.trap
                THEN /\ balances' = r.balances
                     /\ events' = r.events
                     /\ allowances' = insert(allowances, <<from, caller>>, rest.val)
                     /\ Deliver(TransferFromCall(caller, from, to, value, Ok))
                     /\ UNCHANGED total_supply
                ELSE /\ Deliver(TransferFromCall(caller, from, to, value,
                                    IF r.result = Ok THEN Trap ELSE r.result))
                     /\ UNCHANGED <<total_supply, balances, allowances, events>>

\* transfer, spending through the caller's allowance to itself.
transfer_ViaAllowance(caller, to, value) ==
    /\ LET allowance_ == allowance_of_or_zero(caller, caller) IN
        IF allowance_ < value
        THEN /\ Deliver([op |-> "transfer", caller |-> caller, to |-> to,
                         value |-> value, result |-> InsufficientApproval])
             /\ UNCHANGED <<balances, events>>
        ELSE \E r \in transfer_from_to(caller, to, value) :
                /\ balances' = r.balances
                /\ events' = r.events
                /\ Deliver([op |-> "transfer", caller |-> caller, to |-> to,
                            value |-> value, result |-> r.result])
    /\ UNCHANGED <<total_supply, allowances>>

\* transfer(to, value), called by `caller`
transfer(caller, to, value) ==
    /\ \E r \in transfer_from_to(caller, to, value) :
        /\ balances' = r.balances
        /\ events' = r.events
        /\ Deliver([op |-> "transfer", caller |-> caller, to |-> to,
                    value |-> value, result |-> r.result])
    /\ UNCHANGED <<total_supply, allowances>>

\* total_supply(), called by `caller`
TotalSupply(caller) ==
    /\ Deliver([op |-> "total_supply", caller |-> caller, returns |-> total_supply])
    /\ UNCHANGED <<total_supply, balances, allowances, events>>

\* balance_of(owner), called by `caller`
BalanceOf(caller, owner) ==
    /\ Deliver([op |-> "balance_of", caller |-> caller, owner |-> owner,
                returns |-> balance_of(owner)])
    /\ UNCHANGED <<total_supply, balances, allowances, events>>

\* allowance(owner, spender), called by `caller`
Allowance(caller, owner, spender) ==
    /\ Deliver([op |-> "allowance", caller |-> caller, owner |-> owner,
                spender |-> spender, returns |-> allowance(owner, spender)])
    /\ UNCHANGED <<total_supply, balances, allowances, events>>

Next ==
    \/ Room /\ \E caller, spender \in AccountId, value \in Balance :
            approve(caller, spender, value)
    \/ Room /\ \E caller, from, to \in AccountId, value \in Balance :
            transfer_from(caller, from, to, value)
    \/ Room /\ \E caller, to \in AccountId, value \in Balance :
            transfer(caller, to, value)
    \/ Room /\ \E caller \in AccountId : TotalSupply(caller)
    \/ Room /\ \E caller, owner \in AccountId : BalanceOf(caller, owner)
    \/ Room /\ \E caller, owner, spender \in AccountId :
            Allowance(caller, owner, spender)

Spec == Init /\ [][Next]_vars

\* ------------------------------------------------------------------------
\* Longer runs of the mutating messages between an owner and a spender
\* ------------------------------------------------------------------------

\* Longest sequence of calls explored in these runs (the constructor included).
MaxCallsSpend == 4

\* The accounts the environment supplies in these runs.
Pair == {"acct0", "acct1"}

InitSpend ==
    \E caller \in Pair, init_supply \in Balance :
        new(caller, init_supply) /\ host = Serial

RoomSpend == Len(calls) < MaxCallsSpend

NextSpend ==
    \/ RoomSpend /\ \E caller, spender \in Pair, value \in Balance :
            approve(caller, spender, value)
    \/ RoomSpend /\ \E caller, from, to \in Pair, value \in Balance :
            transfer_from(caller, from, to, value)
    \/ RoomSpend /\ \E caller, to \in Pair, value \in Balance :
            transfer(caller, to, value)

SpecSpend == InitSpend /\ [][NextSpend]_vars

\* ------------------------------------------------------------------------
\* transfer run one map access at a time on a concurrent host
\* ------------------------------------------------------------------------

\* Number of transfer calls the concurrent host runs.
MaxTasks == 2

Tasks == 1..MaxTasks

\* The host takes its exclusive lock for task t, when it is a locking host.
Acquire(t) == IF host.locking THEN t ELSE 0

\* The lock does not stop a call from starting.
LockAllows == host.locking => host.holder = 0

\* Task t moves on to `pc` with its locals set.
Continue(t, pc, from_balance, to_balance) ==
    host' = [host EXCEPT !.tasks[t].pc = pc,
                         !.tasks[t].from_balance = from_balance,
                         !.tasks[t].to_balance = to_balance]

\* Task t returns `result`: the host records the call and releases the lock.
Return(t, result) ==
    /\ host' = [host EXCEPT !.tasks[t].pc = "done",
                            !.tasks[t].result = result,
                            !.holder = 0]
    /\ calls' = Append(calls, [op |-> "transfer", caller |-> host.tasks[t].from,
                               to |-> host.tasks[t].to, value |-> host.tasks[t].value,
                               result |-> result])

\* The host starts transfer(to, value) called by `caller` as task t.
Begin(t, caller, to, value) ==
    /\ t \notin DOMAIN host.tasks
    /\ LockAllows
    /\ host' = [host EXCEPT
                    !.holder = Acquire(t),
                    !.tasks = insert(host.tasks, t,
                        [pc |-> "read_from", from |-> caller, to |-> to,
                         value |-> value, from_balance |-> 0, to_balance |-> 0,
                         result |-> "running"])]
    /\ UNCHANGED <<total_supply, balances, allowances, events, calls, old>>

\* transfer_from_to, lines 139-142: read from's balance and check it.
ReadFrom(t) ==
    /\ t \in DOMAIN host.tasks /\ host.tasks[t].pc = "read_from"
    /\ LET task == host.tasks[t]
           from_balance == balance_of_or_zero(task.from)
       IN  IF from_balance < task.value
           THEN Return(t, InsufficientBalance)
           ELSE Continue(t, "debit", from_balance, 0) /\ UNCHANGED calls
    /\ UNCHANGED <<total_supply, balances, allowances, events, old>>

\* transfer_from_to, line 144: store the debit.
Debit(t) ==
    /\ t \in DOMAIN host.tasks /\ host.tasks[t].pc = "debit"
    /\ LET task == host.tasks[t] IN
        \E diff \in sub(task.from_balance, task.value) :
            IF diff.trap
            THEN Return(t, Trap) /\ UNCHANGED balances
            ELSE /\ balances' = insert(balances, task.from, diff.val)
                 /\ Continue(t, "read_to", task.from_balance, 0)
                 /\ UNCHANGED calls
    /\ UNCHANGED <<total_supply, allowances, events, old>>

\* ReadTo, using the balance of `to` as it was when the call began.
ReadTo_Stale(t) ==
    /\ t \in DOMAIN host.tasks /\ host.tasks[t].pc = "read_to"
    /\ LET task == host.tasks[t]
           to_balance == IF task.to = task.from THEN task.from_balance
                         ELSE balance_of_or_zero(task.to)
       IN  Continue(t, "credit", task.from_balance, to_balance)
    /\ UNCHANGED <<total_supply, balances, allowances, events, calls, old>>

\* transfer_from_to, line 145: read to's balance.
ReadTo(t) ==
    /\ t \in DOMAIN host.tasks /\ host.tasks[t].pc = "read_to"
    /\ LET task == host.tasks[t]
           to_balance == balance_of_or_zero(task.to)
       IN  Continue(t, "credit", task.from_balance, to_balance)
    /\ UNCHANGED <<total_supply, balances, allowances, events, calls, old>>

\* transfer_from_to, lines 146-154: store the credit, emit the event, return.
\* A credit that traps stores nothing.
Credit(t) ==
    /\ t \in DOMAIN host.tasks /\ host.tasks[t].pc = "credit"
    /\ LET task == host.tasks[t] IN
        \E sum \in add(task.to_balance, task.value) :
            IF sum.trap
            THEN Return(t, Trap) /\ UNCHANGED <<balances, events>>
            ELSE /\ balances' = insert(balances, task.to, sum.val)
                 /\ events' = Append(events,
                        Transfer(Some(task.from), Some(task.to), task.value))
                 /\ Return(t, Ok)
    /\ UNCHANGED <<total_supply, allowances, old>>

\* The contract on a host that either locks the ledger for each call or
\* does not lock at all.
InitInterleaved ==
    \E caller \in AccountId, init_supply \in Balance, locking \in BOOLEAN :
        /\ new(caller, init_supply)
        /\ host = [locking |-> locking, holder |-> 0, tasks |-> EmptyMap]

NextInterleaved ==
    \/ \E t \in Tasks, caller, to \in AccountId, value \in Balance :
            Begin(t, caller, to, value)
    \/ \E t \in Tasks : ReadFrom(t)
    \/ \E t \in Tasks : Debit(t)
    \/ \E t \in Tasks : ReadTo(t)
    \/ \E t \in Tasks : Credit(t)

SpecInterleaved == InitInterleaved /\ [][NextInterleaved]_vars

\* ------------------------------------------------------------------------
\* Observations used by the properties
\* ------------------------------------------------------------------------

Pairs == AccountId \X AccountId

\* balance_of for every account, now and before the last call
Balances == [a \in AccountId |-> balance_of(a)]

OldBalances == [a \in AccountId |-> get_or_zero(old.balances, a)]

\* allowance for every pair, now and before the last call
Allowances == [p \in Pairs |-> allowance(p[1], p[2])]

OldAllowances == [p \in Pairs |-> get_or_zero(old.allowances, p)]

\* The last call left storage and the event log exactly as they were.
NothingChanged == Snapshot = old

\* The balances after `value` has left `from` and arrived at `to`.
Moved(b, from, to, value) ==
    [a \in AccountId |->
        b[a] - (IF a = from THEN value ELSE 0) + (IF a = to THEN value ELSE 0)]

RECURSIVE SumOver(_, _)
SumOver(f, S) ==
    IF S = {} THEN 0
    ELSE LET a == CHOOSE x \in S : TRUE IN f[a] + SumOver(f, S \ {a})

\* ------------------------------------------------------------------------
\* Properties
\* ------------------------------------------------------------------------

\* C1: supply conservation: in every reachable state the sum of balance_of(a)
\* over all accounts equals total_supply().
SupplyConserved == SumOver(Balances, AccountId) = total_supply

\* C1 witness: a transfer of a positive amount between two accounts succeeded
\* after an earlier successful transfer.
SupplyConservedWitness ==
    /\ Len(calls) = 3
    /\ calls[2].op = "transfer" /\ calls[2].result = Ok /\ calls[2].value > 0
    /\ calls[2].to # calls[2].caller
    /\ call.op \in {"transfer", "transfer_from"} /\ call.result = Ok
    /\ call.value > 0 /\ Balances # OldBalances

\* C2: a transfer_from whose allowance(from, caller) is below the amount returns
\* InsufficientApproval, whatever from's balance is, and leaves balances,
\* allowances, total supply and the event log as they were.
InsufficientApprovalFirst ==
    (call.op = "transfer_from" /\ OldAllowances[<<call.from, call.caller>>] < call.value)
        => (call.result = InsufficientApproval /\ NothingChanged)

\* C2 witness: a transfer_from was rejected where both the allowance and
\* from's balance were below the amount, after an approve of a smaller amount.
InsufficientApprovalFirstWitness ==
    /\ call.op = "transfer_from"
    /\ OldAllowances[<<call.from, call.caller>>] < call.value
    /\ OldAllowances[<<call.from, call.caller>>] > 0
    /\ OldBalances[call.from] < call.value
    /\ call.result = InsufficientApproval

\* C3: a transfer_from with allowance(from, caller) >= amount and
\* balance_of(from) < amount returns InsufficientBalance and leaves every
\* allowance and every balance (and the rest of the state) as it was.
InsufficientBalanceKeepsAllowance ==
    (/\ call.op = "transfer_from"
     /\ OldAllowances[<<call.from, call.caller>>] >= call.value
     /\ OldBalances[call.from] < call.value)
        => (call.result = InsufficientBalance /\ NothingChanged)

\* C3 witness: a transfer_from covered by the allowance failed on from's balance.
InsufficientBalanceKeepsAllowanceWitness ==
    /\ call.op = "transfer_from"
    /\ OldAllowances[<<call.from, call.caller>>] >= call.value
    /\ OldBalances[call.from] < call.value
    /\ call.result = InsufficientBalance
    /\ allowance(call.from, call.caller) > 0

\* C4: a transfer_from with allowance(from, caller) >= amount and
\* balance_of(from) >= amount returns Ok, lowers allowance(from, caller) by
\* exactly amount, moves amount from from's balance to to's balance and leaves
\* every other allowance and every other balance unchanged.
TransferFromSucceeds ==
    (/\ call.op = "transfer_from"
     /\ OldAllowances[<<call.from, call.caller>>] >= call.value
     /\ OldBalances[call.from] >= call.value)
        => /\ call.result = Ok
           /\ Allowances = [OldAllowances EXCEPT ![<<call.from, call.caller>>] = @ - call.value]
           /\ Balances = Moved(OldBalances, call.from, call.to, call.value)

\* C4 witness: a spender moved a positive amount from an owner to a third account.
TransferFromSucceedsWitness ==
    /\ call.op = "transfer_from" /\ call.result = Ok /\ call.value > 0
    /\ call.caller # call.from /\ call.from # call.to /\ call.to # call.caller
    /\ OldAllowances[<<call.from, call.caller>>] > call.value

\* C5: a transfer with balance_of(caller) >= amount and to # caller returns Ok,
\* moves exactly amount from the caller's balance to to's balance and leaves
\* every other balance, every allowance and total supply unchanged; the result
\* and the new state are a function of the balances and the arguments alone.
TransferSucceeds ==
    (/\ call.op = "transfer"
     /\ OldBalances[call.caller] >= call.value
     /\ call.to # call.caller)
        => /\ call.result = Ok
           /\ Balances = Moved(OldBalances, call.caller, call.to, call.value)
           /\ allowances = old.allowances
           /\ total_supply = old.total_supply

\* C5 witness: a positive amount was transferred to another account by a caller
\* who holds no allowance from anyone while another allowance is set.
TransferSucceedsWitness ==
    /\ call.op = "transfer" /\ call.result = Ok /\ call.value > 0
    /\ call.to # call.caller
    /\ \A o \in AccountId : OldAllowances[<<o, call.caller>>] = 0
    /\ \E p \in Pairs : OldAllowances[p] > 0

\* C6: transfer returns InsufficientBalance exactly when balance_of(caller) is
\* below the amount (an absent balance counting as zero), never returns
\* InsufficientApproval, and on the error leaves balances, allowances, total
\* supply and the event log as they were.
TransferFails ==
    call.op = "transfer"
        => /\ (call.result = InsufficientBalance) <=> (OldBalances[call.caller] < call.value)
           /\ call.result # InsufficientApproval
           /\ (call.result = InsufficientBalance => NothingChanged)

\* C6 witness: a transfer by an account with no entry in the balance map failed.
TransferFailsWitness ==
    /\ call.op = "transfer" /\ call.result = InsufficientBalance
    /\ call.caller \notin DOMAIN old.balances

\* C7: approve returns Ok and sets allowance(caller, spender) to the amount
\* whatever it was before; every other allowance, every balance and total
\* supply are unchanged, and the amount may exceed the caller's balance.
ApproveOverwrites ==
    call.op = "approve"
        => /\ call.result = Ok
           /\ Allowances = [OldAllowances EXCEPT ![<<call.caller, call.spender>>] = call.value]
           /\ balances = old.balances
           /\ total_supply = old.total_supply

\* C7 witness: an approve replaced a positive allowance by a positive amount
\* above the caller's balance.
ApproveOverwritesWitness ==
    /\ call.op = "approve"
    /\ OldAllowances[<<call.caller, call.spender>>] > 0
    /\ call.value > 0
    /\ call.value > OldBalances[call.caller]

\* The amount of the most recent approve(s, _) called by o, zero if none.
LastApproved(o, s) ==
    LET made == { i \in 1..Len(calls) :
                    calls[i].op = "approve" /\ calls[i].caller = o /\ calls[i].spender = s }
    IN  IF made = {} THEN 0
        ELSE calls[CHOOSE i \in made : \A j \in made : j <= i].value

\* C8: in every reachable state allowance(o, s) is at most the amount of the
\* most recent approve(s, _) called by o (zero if none), and a call changes
\* allowance(o, s) only if it is an approve called by o naming s or a
\* successful transfer_from called by s with from = o.
AllowanceBounded ==
    \A o, s \in AccountId :
        /\ allowance(o, s) <= LastApproved(o, s)
        /\ allowance(o, s) # OldAllowances[<<o, s>>]
            => \/ call.op = "approve" /\ call.caller = o /\ call.spender = s
               \/ /\ call.op = "transfer_from" /\ call.result = Ok
                  /\ call.caller = s /\ call.from = o

\* C8 witness: a spender other than the owner consumed part of an approved amount.
AllowanceBoundedWitness ==
    /\ call.op = "transfer_from" /\ call.result = Ok
    /\ call.caller # call.from
    /\ allowance(call.from, call.caller) > 0
    /\ allowance(call.from, call.caller) < LastApproved(call.from, call.caller)

\* C9: a transfer to the caller itself with balance_of(caller) >= amount, and a
\* transfer_from with from = to, balance_of(from) >= amount and a sufficient
\* allowance, return Ok, leave every balance unchanged and emit exactly one
\* Transfer event with from = to.
SelfTransferNoOp ==
    LET a == IF call.op = "transfer" THEN call.caller ELSE call.from IN
    (\/ /\ call.op = "transfer" /\ call.to = call.caller
        /\ OldBalances[call.caller] >= call.value
     \/ /\ call.op = "transfer_from" /\ call.to = call.from
        /\ OldBalances[call.from] >= call.value
        /\ OldAllowances[<<call.from, call.caller>>] >= call.value)
        => /\ call.result = Ok
           /\ Balances = OldBalances
           /\ events = Append(old.events, Transfer(Some(a), Some(a), call.value))

\* C9 witness: an account holding more than the amount transferred a positive
\* amount to itself.
SelfTransferNoOpWitness ==
    /\ call.op = "transfer" /\ call.to = call.caller /\ call.result = Ok
    /\ call.value > 0 /\ OldBalances[call.caller] > call.value

\* C10: total_supply() is the init_supply given to new in every reachable
\* state, no call changes it, and the queries total_supply, balance_of and
\* allowance change no state.
TotalSupplyFixed ==
    /\ total_supply = calls[1].init_supply
    /\ Len(calls) > 1 => total_supply = old.total_supply
    /\ call.op = "total_supply" => call.returns = calls[1].init_supply
    /\ call.op \in {"total_supply", "balance_of", "allowance"} => NothingChanged

\* C10 witness: total_supply() was asked after a successful transfer of a
\* positive amount to another account.
TotalSupplyFixedWitness ==
    /\ Len(calls) = 3
    /\ calls[2].op = "transfer" /\ calls[2].result = Ok /\ calls[2].value > 0
    /\ calls[2].to # calls[2].caller
    /\ call.op = "total_supply" /\ call.returns > 0

\* C11: immediately after new(init_supply) called by the creator,
\* total_supply() is init_supply, balance_of(creator) is init_supply,
\* balance_of of every other account is 0 and allowance of every pair is 0.
InitialState ==
    call.op = "new"
        => /\ total_supply = call.init_supply
           /\ Balances = [a \in AccountId |->
                            IF a = call.caller THEN call.init_supply ELSE 0]
           /\ \A p \in Pairs : Allowances[p] = 0

\* C11 witness: the contract was just constructed with a positive supply.
InitialStateWitness ==
    /\ call.op = "new" /\ call.init_supply > 0
    /\ balance_of(call.caller) = call.init_supply

\* The accounts credited so far: the creator and every `to` of a successful
\* transfer or transfer_from.
Credited ==
    {calls[1].caller} \cup
    { calls[i].to : i \in { j \in 2..Len(calls) :
                              /\ calls[j].op \in {"transfer", "transfer_from"}
                              /\ calls[j].result = Ok } }

\* The pairs (o, s) for which o has called approve naming s.
Approved ==
    { <<calls[i].caller, calls[i].spender>> :
        i \in { j \in 2..Len(calls) : calls[j].op = "approve" } }

\* C12: in every reachable state an account that is not the creator and was
\* never the `to` of a successful transfer or transfer_from has balance_of 0,
\* and a pair (o, s) for which o never called approve naming s has allowance 0.
UntouchedReadZero ==
    /\ \A a \in AccountId \ Credited : balance_of(a) = 0
    /\ \A p \in Pairs \ Approved : allowance(p[1], p[2]) = 0

\* C12 witness: after an approve and a transfer of positive amounts, an
\* account was never credited and a pair was never approved.
UntouchedReadZeroWitness ==
    /\ Len(calls) = 3
    /\ \E a \in Credited : a # calls[1].caller /\ balance_of(a) > 0
    /\ \E p \in Approved : allowance(p[1], p[2]) > 0
    /\ AccountId \ Credited # {}
    /\ Pairs \ Approved # {}

\* C13: every approve appends exactly one Approval{owner = caller, spender,
\* value}; every successful transfer or transfer_from appends exactly one
\* Transfer{from, to, value} and nothing else; a transfer or transfer_from
\* that returns an error appends nothing.
OneNotification ==
    /\ call.op = "approve"
        => /\ call.result = Ok
           /\ events = Append(old.events,
                              Approval(call.caller, call.spender, call.value))
    /\ (call.op = "transfer" /\ call.result = Ok)
        => events = Append(old.events,
                           Transfer(Some(call.caller), Some(call.to), call.value))
    /\ (call.op = "transfer_from" /\ call.result = Ok)
        => events = Append(old.events,
                           Transfer(Some(call.from), Some(call.to), call.value))
    /\ (call.op \in {"transfer", "transfer_from"} /\ call.result # Ok)
        => events = old.events

\* C13 witness: a transfer_from by a spender other than the owner succeeded
\* after the approve that allowed it.
OneNotificationWitness ==
    /\ Len(calls) = 3
    /\ calls[2].op = "approve"
    /\ call.op = "transfer_from" /\ call.result = Ok /\ call.value > 0
    /\ call.caller # call.from
    /\ Len(events) = 3

\* C14: the first event of every run is Transfer{from: None, to:
\* Some(creator), value: init_supply}, and every Transfer event after it has
\* from = Some(_) and to = Some(_).
MintEventUnique ==
    /\ events[1] = Transfer(None, Some(calls[1].caller), calls[1].init_supply)
    /\ \A i \in 2..Len(events) :
            events[i].event = "Transfer"
                => /\ events[i].from \in { Some(a) : a \in AccountId }
                   /\ events[i].to \in { Some(a) : a \in AccountId }

\* C14 witness: two transfers have been notified after the mint.
MintEventUniqueWitness ==
    /\ Len(events) = 3
    /\ events[2].event = "Transfer"
    /\ events[3].event = "Transfer"

\* The last call is a transfer or transfer_from that returned Ok.
Transferred == call.op \in {"transfer", "transfer_from"} /\ call.result = Ok

\* The account the last transfer or transfer_from debited.
Source == IF call.op = "transfer" THEN call.caller ELSE call.from

\* The operands of the last successful transfer's arithmetic, as integers:
\* from_balance - value, and the to_balance read after the debit was stored.
Debited == OldBalances[Source] - call.value

ToBalance == IF call.to = Source THEN Debited ELSE OldBalances[call.to]

\* C15: in every reachable state every balance is at most total_supply; no
\* call traps; and in every transfer or transfer_from that passed its checks
\* to_balance + value fits the Balance type while from_balance - value and
\* allowance - value are not below zero.
NeverWraps ==
    /\ total_supply \in Balance
    /\ \A a \in AccountId : balance_of(a) <= total_supply
    /\ call.op \in {"approve", "transfer", "transfer_from"} => call.result # Trap
    /\ Transferred
        => /\ Debited >= 0
           /\ ToBalance + call.value <= MaxBalance
    /\ (call.op = "transfer_from" /\ call.result = Ok)
        => OldAllowances[<<call.from, call.caller>>] - call.value >= 0

\* C15 witness: a credit brought a balance that was already positive to the
\* largest value of the Balance type.
NeverWrapsWitness ==
    /\ Transferred /\ call.to # Source /\ call.value > 0
    /\ OldBalances[call.to] > 0
    /\ OldBalances[call.to] + call.value = MaxBalance

\* C16: whenever a call lowers balance_of(a), the call is a successful
\* transfer called by a, or a successful transfer_from with from = a whose
\* caller had allowance(a, caller) >= the amount before the call; a caller
\* other than a with zero allowance from a never lowers a's balance.
SpendingAuthorized ==
    \A a \in AccountId :
        /\ Balances[a] < OldBalances[a]
            => \/ call.op = "transfer" /\ call.result = Ok /\ call.caller = a
               \/ /\ call.op = "transfer_from" /\ call.result = Ok /\ call.from = a
                  /\ OldAllowances[<<a, call.caller>>] >= call.value
                  /\ OldBalances[a] - Balances[a] = call.value
        /\ (call.op # "new" /\ call.caller # a /\ OldAllowances[<<a, call.caller>>] = 0)
            => Balances[a] >= OldBalances[a]

\* C16 witness: a spender other than the owner lowered the owner's balance.
SpendingAuthorizedWitness ==
    /\ call.op = "transfer_from" /\ call.result = Ok
    /\ call.caller # call.from
    /\ Balances[call.from] < OldBalances[call.from]

\* C18: transfer(to, 0) and transfer_from(from, to, 0) return Ok whatever the
\* source balance and the allowance are, leave every balance_of and allowance
\* result unchanged and emit one Transfer event with value 0.
ZeroAmountSucceeds ==
    (call.op \in {"transfer", "transfer_from"} /\ call.value = 0)
        => /\ call.result = Ok
           /\ Balances = OldBalances
           /\ Allowances = OldAllowances
           /\ events = Append(old.events, Transfer(Some(Source), Some(call.to), 0))

\* C18 witness: a transfer_from of 0 between two other accounts, from an
\* account with no balance entry, with no allowance ever granted.
ZeroAmountSucceedsWitness ==
    /\ call.op = "transfer_from" /\ call.value = 0 /\ call.result = Ok
    /\ call.caller # call.from /\ call.from # call.to /\ call.to # call.caller
    /\ call.from \notin DOMAIN old.balances
    /\ old.allowances = EmptyMap

\* The position in calls of the most recent approve(s, _) called by o, 0 if none.
LastApproveAt(o, s) ==
    LET made == { i \in 1..Len(calls) :
                    calls[i].op = "approve" /\ calls[i].caller = o /\ calls[i].spender = s }
    IN  IF made = {} THEN 0 ELSE CHOOSE i \in made : \A j \in made : j <= i

\* The successful transfer_from calls made by s with from = o since then.
SpendsSince(o, s) ==
    { i \in (LastApproveAt(o, s) + 1)..Len(calls) :
        /\ calls[i].op = "transfer_from" /\ calls[i].result = Ok
        /\ calls[i].caller = s /\ calls[i].from = o }

\* The total of the amounts those calls debited from o's balance.
Spent(o, s) == SumOver([i \in SpendsSince(o, s) |-> calls[i].value], SpendsSince(o, s))

\* C17: for every pair (o, s), the total of the amounts debited from o's
\* balance by successful transfer_from calls made by s since o's most recent
\* approve(s, v) is at most v, and allowance(o, s) equals v minus that total
\* (v = 0 when o never approved s).
CumulativeSpendBound ==
    \A o, s \in AccountId :
        /\ Spent(o, s) <= LastApproved(o, s)
        /\ allowance(o, s) = LastApproved(o, s) - Spent(o, s)

\* C17 witness: after one approve a spender other than the owner made two
\* successful transfer_from calls of positive amounts and used the allowance up.
CumulativeSpendBoundWitness ==
    /\ Len(calls) = 4
    /\ calls[2].op = "approve" /\ calls[2].caller # calls[2].spender
    /\ \A i \in {3, 4} :
        /\ calls[i].op = "transfer_from" /\ calls[i].result = Ok
        /\ calls[i].value > 0
        /\ calls[i].caller = calls[2].spender /\ calls[i].from = calls[2].caller
    /\ Spent(calls[2].caller, calls[2].spender) = calls[2].value
    /\ allowance(calls[2].caller, calls[2].spender) = 0

\* No call is in progress.
Quiescent == \A t \in DOMAIN host.tasks : host.tasks[t].pc = "done"

\* C19: on a host that runs each transfer under one exclusive lock, the sum
\* of the balances equals total_supply whenever the lock is free (between
\* operations), every call returns without a trap, and a call in progress
\* holds the lock alone.
LockedConserves ==
    host.locking
        => /\ host.holder = 0 => SumOver(Balances, AccountId) = total_supply
           /\ \A t \in DOMAIN host.tasks :
                /\ host.tasks[t].result # Trap
                /\ host.tasks[t].pc # "done" => host.holder = t

\* C19 witness: on a host without the lock, two transfers of positive amounts
\* out of the same account to two other accounts both returned Ok with their
\* map accesses interleaved, and the balances sum to more than total_supply.
LockedConservesWitness ==
    /\ ~host.locking
    /\ DOMAIN host.tasks = Tasks
    /\ \A t \in Tasks :
        /\ host.tasks[t].pc = "done" /\ host.tasks[t].result = Ok
        /\ host.tasks[t].value > 0
        /\ host.tasks[t].from # host.tasks[t].to
    /\ host.tasks[1].from = host.tasks[2].from
    /\ host.tasks[1].to # host.tasks[2].to
    /\ SumOver(Balances, AccountId) > total_supply

====
